---- MODULE Spec2Model ----
(***************************************************************************)
(* A model of the stvp/rollbar Go client: the bounded delivery queue       *)
(* (bodyChannel), the pending counter (waitGroup), the background worker   *)
(* started by init(), Wait(), and the report builders.                     *)
(*                                                                         *)
(* Spec    : concurrent producers calling push, the worker, a Wait caller  *)
(*           and the writes to the exported settings Token and Buffer.     *)
(* SpecFn  : a single caller applying the report builders and the pure     *)
(*           helpers (filterParams, shortenFilePath, BuildStack) to inputs *)
(*           drawn from bounded sets.                                      *)
(***************************************************************************)
EXTENDS Integers, Sequences, FiniteSets, TLC

\* ------------------------------------------------------------------ bounds

\* Stands for the value of Buffer when init() runs (1000 in the source); the
\* channel is created with this capacity and never resized.
DefaultBuffer == 2

\* Number of push calls made in one behaviour.
MaxReports == 3

\* Longest message or error text drawn as an input.
MaxMsgLen == 3

Producers == {"p1", "p2"}
\* Reports enough to fill the channel, occupy the worker and leave one more.
BacklogReports == DefaultBuffer + 2
Ids == 1..(IF MaxReports > BacklogReports THEN MaxReports ELSE BacklogReports)
NoBody == [id |-> 0, data |-> "none"]

\* Values the exported settings take.
Tokens == {"", "MY_TOKEN"}
BufferSettings == 0..(DefaultBuffer + 1)

\* ------------------------------------------------------------------ state

VARIABLES
    Token,        \* rollbar.Token
    Buffer,       \* rollbar.Buffer
    bodyChannel,  \* the buffered contents of the channel, oldest first
    waitGroup,    \* the counter of sync.WaitGroup
    ppc,          \* each producer's position inside push
    pbody,        \* the body a producer is pushing
    nextId,       \* identity of the next report built
    wpc,          \* the worker goroutine's position
    wbody,        \* the body held by the worker
    wtoken,       \* the Token value post read at its check
    inflight,     \* number of http.Post calls in progress
    tpc,          \* the Wait caller's position
    waitSnap,     \* history: reports whose push had returned when Wait was called
    pushed,       \* history: [id -> "none" | "rejected" | "added" | "sent"]
    recvs,        \* history: [id -> times received by the worker]
    posts,        \* history: [id -> number of http.Post calls]
    dones,        \* history: [id -> number of waitGroup.Done calls]
    outcome,      \* history: [id -> how post ended]
    order,        \* history: report ids in the order they entered the channel
    handed,       \* history: report ids in the order the worker handed them to post
    call          \* SpecFn: the last builder or helper call and its result

vars == <<Token, Buffer, bodyChannel, waitGroup, ppc, pbody, nextId, wpc, wbody,
          wtoken, inflight, tpc, waitSnap, pushed, recvs, posts, dones, outcome,
          order, handed, call>>

cfgVars == <<Token, Buffer>>
chanVars == <<bodyChannel, waitGroup>>
prodVars == <<ppc, pbody, nextId>>
workVars == <<wpc, wbody, wtoken, inflight>>
waitVars == <<tpc, waitSnap>>
histVars == <<pushed, recvs, posts, dones, outcome, order, handed>>

\* ------------------------------------------------------------------ channel and counter

\* cap(bodyChannel): make(chan ..., Buffer) evaluated in init().
ChanCap == DefaultBuffer

ChanSendFront(q, b) == <<b>> \o q
\* bodyChannel <- body, once there is room.
ChanSend(q, b) == Append(q, b)

\* for body := range bodyChannel: the value received and what stays buffered.
ChanFirst(q) == Head(q)
ChanRest(q) == Tail(q)

WaitGroupAddDropped(n) == n
\* waitGroup.Add(1)
WaitGroupAdd(n) == n + 1

WaitGroupDoneDropped(n) == n
WaitGroupDoneTwice(n) == n - 2
\* waitGroup.Done()
WaitGroupDone(n) == n - 1

PushGuardInclusive(len, buffer) == len <= buffer
\* the condition of push: len(bodyChannel) < Buffer
PushGuard(len, buffer) == len < buffer

\* ------------------------------------------------------------------ initial state

Init ==
    /\ Token = ""
    /\ Buffer = DefaultBuffer
    /\ bodyChannel = <<>>
    /\ waitGroup = 0
    /\ ppc = [p \in Producers |-> "idle"]
    /\ pbody = [p \in Producers |-> NoBody]
    /\ nextId = 1
    /\ wpc = "range"
    /\ wbody = NoBody
    /\ wtoken = ""
    /\ inflight = 0
    /\ tpc = "idle"
    /\ waitSnap = {}
    /\ pushed = [i \in Ids |-> "none"]
    /\ recvs = [i \in Ids |-> 0]
    /\ posts = [i \in Ids |-> 0]
    /\ dones = [i \in Ids |-> 0]
    /\ outcome = [i \in Ids |-> "none"]
    /\ order = <<>>
    /\ handed = <<>>
    /\ call = [op |-> "none"]

\* ------------------------------------------------------------------ settings

\* The program assigns rollbar.Token.
SetToken ==
    /\ \E t \in Tokens : t # Token /\ Token' = t
    /\ UNCHANGED <<Buffer, chanVars, prodVars, workVars, waitVars, histVars, call>>

\* The program assigns rollbar.Buffer; the channel keeps its capacity.
SetBuffer ==
    /\ \E b \in BufferSettings : b # Buffer /\ Buffer' = b
    /\ UNCHANGED <<Token, chanVars, prodVars, workVars, waitVars, histVars, call>>

\* ------------------------------------------------------------------ push

\* push, the if: a producer enters push with a fresh body and evaluates
\* len(bodyChannel) < Buffer; on the else branch it logs and returns.
PushEnter(p, n, data) ==
    /\ ppc[p] = "idle"
    /\ nextId <= n
    /\ nextId' = nextId + 1
    /\ IF PushGuard(Len(bodyChannel), Buffer)
       THEN /\ ppc' = [ppc EXCEPT ![p] = "add"]
            /\ pbody' = [pbody EXCEPT ![p] = [id |-> nextId, data |-> data]]
            /\ UNCHANGED pushed
       ELSE /\ pushed' = [pushed EXCEPT ![nextId] = "rejected"]
            /\ UNCHANGED <<ppc, pbody>>
    /\ UNCHANGED <<cfgVars, chanVars, workVars, waitVars, recvs, posts, dones,
                   outcome, order, handed>>

\* push called with a body whose contents do not matter.
PushCheckUpTo(p, n) == PushEnter(p, n, "body") /\ UNCHANGED call

PushCheck(p) == PushCheckUpTo(p, MaxReports)

\* push, waitGroup.Add(1).
PushAdd(p) ==
    /\ ppc[p] = "add"
    /\ waitGroup' = WaitGroupAdd(waitGroup)
    /\ ppc' = [ppc EXCEPT ![p] = "send"]
    /\ pushed' = [pushed EXCEPT ![pbody[p].id] = "added"]
    /\ UNCHANGED <<cfgVars, bodyChannel, pbody, nextId, workVars, waitVars, recvs,
                   posts, dones, outcome, order, handed, call>>

\* push, bodyChannel <- body: proceeds only while the channel has room, and
\* the producer waits otherwise.
PushSend(p) ==
    /\ ppc[p] = "send"
    /\ Len(bodyChannel) < ChanCap
    /\ bodyChannel' = ChanSend(bodyChannel, pbody[p])
    /\ order' = Append(order, pbody[p].id)
    /\ pushed' = [pushed EXCEPT ![pbody[p].id] = "sent"]
    /\ ppc' = [ppc EXCEPT ![p] = "idle"]
    /\ pbody' = [pbody EXCEPT ![p] = NoBody]
    /\ UNCHANGED <<cfgVars, waitGroup, nextId, workVars, waitVars, recvs, posts,
                   dones, outcome, handed, call>>

\* ------------------------------------------------------------------ worker

Failures == {"empty_token", "encode_failed", "post_failed", "bad_status"}
Outcomes == Failures \cup {"ok"}

RecvWhilePosting(pc) == pc \in {"range", "httpwait"}
\* The worker receives only at the head of its loop.
WorkerAtRange(pc) == pc = "range"

TokenNeverMissing(tok) == FALSE
\* post: len(Token) == 0
TokenMissing(tok) == tok = ""

AfterPostSkipDone(res) == IF res = "empty_token" THEN "range" ELSE "done"
AfterPostRetry(res) == IF res \in {"post_failed", "bad_status"} THEN "post" ELSE "done"
\* post returns to the worker loop whatever happened; waitGroup.Done() is next.
AfterPost(res) == "done"

\* for body := range bodyChannel
WorkerRecv ==
    /\ WorkerAtRange(wpc)
    /\ bodyChannel # <<>>
    /\ wbody' = ChanFirst(bodyChannel)
    /\ bodyChannel' = ChanRest(bodyChannel)
    /\ wpc' = "post"
    /\ recvs' = [recvs EXCEPT ![ChanFirst(bodyChannel).id] = @ + 1]
    /\ handed' = Append(handed, ChanFirst(bodyChannel).id)
    /\ UNCHANGED <<cfgVars, waitGroup, prodVars, wtoken, inflight, waitVars, pushed,
                   posts, dones, outcome, order, call>>

\* post: the token check; an empty token logs and returns.
PostCheckToken ==
    /\ wpc = "post"
    /\ wtoken' = Token
    /\ IF TokenMissing(Token)
       THEN /\ wpc' = AfterPost("empty_token")
            /\ outcome' = [outcome EXCEPT ![wbody.id] = "empty_token"]
       ELSE /\ wpc' = "marshal"
            /\ UNCHANGED outcome
    /\ UNCHANGED <<cfgVars, chanVars, prodVars, wbody, inflight, waitVars, pushed,
                   recvs, posts, dones, order, handed, call>>

\* post: json.Marshal(body); a failure logs and returns.
PostMarshal ==
    /\ wpc = "marshal"
    /\ \E ok \in BOOLEAN :
        IF ok
        THEN /\ wpc' = "http"
             /\ UNCHANGED outcome
        ELSE /\ wpc' = AfterPost("encode_failed")
             /\ outcome' = [outcome EXCEPT ![wbody.id] = "encode_failed"]
    /\ UNCHANGED <<cfgVars, chanVars, prodVars, wbody, wtoken, inflight, waitVars,
                   pushed, recvs, posts, dones, order, handed, call>>

\* post: http.Post is called; the request is now in progress.
PostBegin ==
    /\ wpc = "http"
    /\ inflight' = inflight + 1
    /\ posts' = [posts EXCEPT ![wbody.id] = @ + 1]
    /\ wpc' = "httpwait"
    /\ UNCHANGED <<cfgVars, chanVars, prodVars, wbody, wtoken, waitVars, pushed,
                   recvs, dones, outcome, order, handed, call>>

\* post: http.Post returns an error, a non-200 status or 200. It has no
\* timeout, so nothing forces this step to happen.
PostReturn ==
    /\ wpc = "httpwait"
    /\ \E res \in {"post_failed", "bad_status", "ok"} :
        /\ wpc' = AfterPost(res)
        /\ outcome' = [outcome EXCEPT ![wbody.id] = res]
    /\ inflight' = inflight - 1
    /\ UNCHANGED <<cfgVars, chanVars, prodVars, wbody, wtoken, waitVars, pushed,
                   recvs, posts, dones, order, handed, call>>

\* waitGroup.Done() after post has returned.
WorkerDone ==
    /\ wpc = "done"
    /\ waitGroup' = WaitGroupDone(waitGroup)
    /\ dones' = [dones EXCEPT ![wbody.id] = @ + 1]
    /\ wpc' = "range"
    /\ wbody' = NoBody
    /\ wtoken' = ""
    /\ UNCHANGED <<cfgVars, bodyChannel, prodVars, inflight, waitVars,
                   pushed, recvs, posts, outcome, order, handed, call>>

\* ------------------------------------------------------------------ Wait

\* Wait is called.
WaitCall ==
    /\ tpc # "waiting"
    /\ tpc' = "waiting"
    /\ waitSnap' = {i \in Ids : pushed[i] = "sent"}
    /\ UNCHANGED <<cfgVars, chanVars, prodVars, workVars, histVars, call>>

\* waitGroup.Wait() returns once the counter is zero.
WaitReturn ==
    /\ tpc = "waiting"
    /\ waitGroup = 0
    /\ tpc' = "returned"
    /\ UNCHANGED <<cfgVars, chanVars, prodVars, workVars, waitSnap, histVars, call>>

\* ------------------------------------------------------------------ specification

Next ==
    \/ SetToken
    \/ SetBuffer
    \/ \E p \in Producers : PushCheck(p)
    \/ \E p \in Producers : PushAdd(p)
    \/ \E p \in Producers : PushSend(p)
    \/ WorkerRecv
    \/ PostCheckToken
    \/ PostMarshal
    \/ PostBegin
    \/ PostReturn
    \/ WorkerDone
    \/ WaitCall
    \/ WaitReturn

Spec == Init /\ [][Next]_vars

\* One turn of the worker goroutine's loop, from the receive to Done.
WorkerStep ==
    \/ WorkerRecv
    \/ PostCheckToken
    \/ PostMarshal
    \/ PostBegin
    \/ WorkerDone

\* The worker goroutine is scheduled whenever it can run, every http.Post
\* returns, and a goroutine blocked in waitGroup.Wait() is released once the
\* counter is zero.
Fairness ==
    /\ WF_vars(WorkerStep)
    /\ WF_vars(PostReturn)
    /\ WF_vars(WaitReturn)

SpecLive == Init /\ [][Next]_vars /\ Fairness

\* Producers and the worker alone, Buffer left at its initial value and Wait
\* never called, with enough push calls to overfill the channel.
NextBacklog ==
    \/ SetToken
    \/ \E p \in Producers : PushCheckUpTo(p, BacklogReports)
    \/ \E p \in Producers : PushAdd(p)
    \/ \E p \in Producers : PushSend(p)
    \/ WorkerRecv
    \/ PostCheckToken
    \/ PostMarshal
    \/ PostBegin
    \/ PostReturn
    \/ WorkerDone

SpecBacklog == Init /\ [][NextBacklog]_vars

\* ------------------------------------------------------------------ strings

\* Strings whose characters matter are sequences of one-character strings.
NL == "\n"
MsgChars == {"a", "b", NL}

RECURSIVE SeqsUpTo(_, _)
SeqsUpTo(S, n) ==
    IF n = 0 THEN {<<>>}
    ELSE LET shorter == SeqsUpTo(S, n - 1)
         IN shorter \cup {Append(t, c) : t \in {u \in shorter : Len(u) = n - 1}, c \in S}

\* The message and error texts drawn as inputs.
Msgs == SeqsUpTo(MsgChars, MaxMsgLen)

\* strings.Index(s, pat) # -1
Contains(s, pat) ==
    \E k \in 0..(Len(s) - Len(pat)) : SubSeq(s, k + 1, k + Len(pat)) = pat

UpperChars == <<"A","B","C","D","E","F","G","H","I","J","K","L","M",
                "N","O","P","Q","R","S","T","U","V","W","X","Y","Z">>
LowerChars == <<"a","b","c","d","e","f","g","h","i","j","k","l","m",
                "n","o","p","q","r","s","t","u","v","w","x","y","z">>
LowerChar(c) ==
    IF \E k \in 1..26 : UpperChars[k] = c
    THEN LowerChars[CHOOSE k \in 1..26 : UpperChars[k] = c]
    ELSE c
ToLower(s) == [k \in 1..Len(s) |-> LowerChar(s[k])]

\* strings.SplitN(s, "\n", 2)[0], the title of the 0.1.0 variant of
\* Message and ErrorWithStackSkip kept in the same file.
SplitFirstLine(s) ==
    IF \E k \in 1..Len(s) : s[k] = NL
    THEN SubSeq(s, 1, (CHOOSE k \in 1..Len(s) :
                          s[k] = NL /\ \A j \in 1..(k - 1) : s[j] # NL) - 1)
    ELSE s

\* ------------------------------------------------------------------ redaction

FILTERED == "[FILTERED]"

PatPassword == <<"p","a","s","s","w","o","r","d">>
PatSecret == <<"s","e","c","r","e","t">>
PatToken == <<"t","o","k","e","n">>

\* FilterFields = regexp.MustCompile("password|secret|token"), and
\* FilterFields.Match: an unanchored match of one of the alternatives.
FilterFieldsMatch(key) ==
    \/ Contains(key, PatPassword)
    \/ Contains(key, PatSecret)
    \/ Contains(key, PatToken)

filterParamsFirstValueOnly(values) ==
    [k \in DOMAIN values |->
        IF FilterFieldsMatch(k) /\ Len(values[k]) > 0
        THEN <<FILTERED>> \o Tail(values[k])
        ELSE values[k]]
\* filterParams: overwrites the values of every matching key, in place, and
\* returns the same map.
filterParams(values) ==
    [k \in DOMAIN values |-> IF FilterFieldsMatch(k) THEN <<FILTERED>> ELSE values[k]]

\* flattenValues: a single value is stored as a scalar, anything else as the sequence.
flattenValues(values) ==
    [k \in DOMAIN values |->
        IF Len(values[k]) = 1 THEN [scalar |-> TRUE, v |-> values[k][1]]
        ELSE [scalar |-> FALSE, v |-> values[k]]]

\* The field names and value lists drawn as inputs.
Keys == { PatPassword, PatSecret, PatToken,
          <<"S","e","c","r","e","t">>,
          <<"P","A","S","S","W","O","R","D">>,
          <<"a","u","t","h","T","o","k","e","n">>,
          <<"a","u","t","h","_","t","o","k","e","n">>,
          <<"u","s","e","r","n","a","m","e">> }
ValueLists == { <<>>, <<"abc">>, <<"abc", "bob">> }
MaxKeys == 2
ParamMaps ==
    UNION { [ks -> ValueLists] : ks \in {t \in SUBSET Keys : Cardinality(t) <= MaxKeys} }

\* ------------------------------------------------------------------ stack walker: paths

\* strings.Index(s, pat): the 0-based position of the first occurrence, or -1.
Index(s, pat) ==
    IF Contains(s, pat)
    THEN CHOOSE k \in 0..(Len(s) - Len(pat)) :
            /\ SubSeq(s, k + 1, k + Len(pat)) = pat
            /\ \A j \in 0..(k - 1) : SubSeq(s, j + 1, j + Len(pat)) # pat
    ELSE -1

\* s[from:]
SliceFrom(s, from) == SubSeq(s, from + 1, Len(s))

SrcPkg == <<"/","s","r","c","/","p","k","g","/">>

\* knownFilePathPatterns, in the order of the source
knownFilePathPatterns ==
    << <<"g","i","t","h","u","b",".","c","o","m","/">>,
       <<"c","o","d","e",".","g","o","o","g","l","e",".","c","o","m","/">>,
       <<"b","i","t","b","u","c","k","e","t",".","o","r","g","/">>,
       <<"l","a","u","n","c","h","p","a","d",".","n","e","t","/">> >>

\* The first pattern of knownFilePathPatterns, in list order, that occurs in s
\* (0 when none does): the for loop of shortenFilePath.
FirstPatternIn(s) ==
    LET hits == {i \in 1..Len(knownFilePathPatterns) : Index(s, knownFilePathPatterns[i]) # -1}
    IN IF hits = {} THEN 0 ELSE CHOOSE i \in hits : \A j \in hits : i <= j

shortenFilePathPatternsFirst(s) ==
    IF FirstPatternIn(s) # 0
    THEN SliceFrom(s, Index(s, knownFilePathPatterns[FirstPatternIn(s)]))
    ELSE IF Index(s, SrcPkg) # -1 THEN SliceFrom(s, Index(s, SrcPkg) + 5) ELSE s
\* shortenFilePath(s)
shortenFilePath(s) ==
    IF Index(s, SrcPkg) # -1
    THEN SliceFrom(s, Index(s, SrcPkg) + 5)
    ELSE IF FirstPatternIn(s) # 0
         THEN SliceFrom(s, Index(s, knownFilePathPatterns[FirstPatternIn(s)]))
         ELSE s

\* The paths of TestShortenFilePath.
TestPathEmpty == <<>>
TestPathPlain == <<"f","o","o",".","g","o">>
TestPathStd == <<"/","u","s","r","/","l","o","c","a","l","/","g","o","/","s","r","c","/","p","k","g","/","r","u","n","t","i","m","e","/","p","r","o","c",".","c">>
TestPathStdShort == <<"p","k","g","/","r","u","n","t","i","m","e","/","p","r","o","c",".","c">>
TestPathHosted == <<"/","h","o","m","e","/","f","o","o","/","g","o","/","s","r","c","/","g","i","t","h","u","b",".","c","o","m","/","s","t","v","p","/","r","o","l","l","b","a","r",".","g","o">>
TestPathHostedShort == <<"g","i","t","h","u","b",".","c","o","m","/","s","t","v","p","/","r","o","l","l","b","a","r",".","g","o">>

\* The paths drawn as inputs: the test's paths and every concatenation of up
\* to MaxPathSegs of these segments.
PathSegments ==
    { <<"/","a","/">>, <<"x",".","g","o">>, SrcPkg,
      knownFilePathPatterns[1], knownFilePathPatterns[2],
      knownFilePathPatterns[3], knownFilePathPatterns[4] }
MaxPathSegs == 3

RECURSIVE Concats(_)
Concats(n) ==
    IF n = 0 THEN {<<>>}
    ELSE LET shorter == Concats(n - 1)
         IN shorter \cup {t \o g : t \in shorter, g \in PathSegments}

PathInputs ==
    Concats(MaxPathSegs) \cup {TestPathEmpty, TestPathPlain, TestPathStd, TestPathHosted}

\* ------------------------------------------------------------------ stack walker: frames

\* A call stack is a sequence of activation records, innermost first; each
\* holds what runtime.Caller and runtime.FuncForPC report for it: the source
\* file, the function (known or not) and the line being executed.
Activation(file, known, name, line) ==
    [file |-> file, fn |-> [known |-> known, name |-> name], line |-> line]

\* strings.LastIndex(s, "/"): the 0-based position of the last separator, or -1.
LastIndexSep(s) ==
    IF \E k \in 1..Len(s) : s[k] = "/"
    THEN (CHOOSE k \in 1..Len(s) : s[k] = "/" /\ \A j \in (k + 1)..Len(s) : s[j] # "/") - 1
    ELSE -1

\* functionName(pc)
functionName(fn) ==
    IF ~fn.known THEN <<"?","?","?">>
    ELSE SliceFrom(fn.name, LastIndexSep(fn.name) + 1)

\* Frame{file, functionName(pc), line} with the file shortened
Frame(a) == [Filename |-> shortenFilePath(a.file), Method |-> functionName(a.fn), Line |-> a.line]

\* The reporter's own source files and functions, and the lines of their calls.
RollbarFile == <<"/","g","o","/","s","r","c","/","g","i","t","h","u","b",".","c","o","m","/","s","t","v","p","/","r","o","l","l","b","a","r","/","r","o","l","l","b","a","r",".","g","o">>
StackFile == <<"/","g","o","/","s","r","c","/","g","i","t","h","u","b",".","c","o","m","/","s","t","v","p","/","r","o","l","l","b","a","r","/","s","t","a","c","k",".","g","o">>
FnBuildStack == <<"g","i","t","h","u","b",".","c","o","m","/","s","t","v","p","/","r","o","l","l","b","a","r",".","B","u","i","l","d","S","t","a","c","k">>
FnErrorBody == <<"g","i","t","h","u","b",".","c","o","m","/","s","t","v","p","/","r","o","l","l","b","a","r",".","e","r","r","o","r","B","o","d","y">>
FnErrorWithStackSkip == <<"g","i","t","h","u","b",".","c","o","m","/","s","t","v","p","/","r","o","l","l","b","a","r",".","E","r","r","o","r","W","i","t","h","S","t","a","c","k","S","k","i","p">>
FnRequestErrorWithStackSkip == <<"g","i","t","h","u","b",".","c","o","m","/","s","t","v","p","/","r","o","l","l","b","a","r",".","R","e","q","u","e","s","t","E","r","r","o","r","W","i","t","h","S","t","a","c","k","S","k","i","p">>
FnError == <<"g","i","t","h","u","b",".","c","o","m","/","s","t","v","p","/","r","o","l","l","b","a","r",".","E","r","r","o","r">>
FnRequestError == <<"g","i","t","h","u","b",".","c","o","m","/","s","t","v","p","/","r","o","l","l","b","a","r",".","R","e","q","u","e","s","t","E","r","r","o","r">>
ReporterFns == {FnBuildStack, FnErrorBody, FnErrorWithStackSkip,
                FnRequestErrorWithStackSkip, FnError, FnRequestError}

\* BuildStack(skip), called where the stack of callers is `callers`:
\* runtime.Caller(i) is activation i of the stack with BuildStack's own
\* activation at 0, and the loop runs from skip until Caller fails.
BuildStack(skip, callers) ==
    LET stack == <<Activation(StackFile, TRUE, FnBuildStack, 33)>> \o callers
        n == IF skip >= Len(stack) THEN 0 ELSE Len(stack) - skip
    IN [k \in 1..n |-> Frame(stack[skip + k])]

\* ------------------------------------------------------------------ report builders

CRIT == "critical"
ERR == "error"
WARN == "warning"
INFO == "info"
DEBUG == "debug"
Levels == {CRIT, ERR, WARN, INFO, DEBUG}

\* buildBody(level, title): the envelope; the token is read when the report is built.
buildBody(level, title) ==
    [access_token |-> Token, title |-> title, level |-> level]

\* messageBody(s)
messageBody(s) == [kind |-> "message", text |-> s]

errorBodySkipTwo(errText, skip, callers) ==
    [kind |-> "trace", text |-> errText,
     frames |-> BuildStack(2 + skip, <<Activation(RollbarFile, TRUE, FnErrorBody, 366)>> \o callers)]
\* errorBody(err, skip), called where the stack of callers is `callers`: the
\* stack is taken at BuildStack(3 + skip) and the exception message is the
\* full err.Error().
errorBody(errText, skip, callers) ==
    [kind |-> "trace", text |-> errText,
     frames |-> BuildStack(3 + skip, <<Activation(RollbarFile, TRUE, FnErrorBody, 366)>> \o callers)]

\* errorRequest(r): the query and the form parameters go through filterParams.
errorRequest(r) ==
    [GET |-> flattenValues(filterParams(r.query)),
     POST |-> flattenValues(filterParams(r.form))]

\* The goroutine that calls the report builders.
Caller == "p1"

\* Message(level, msg): the body is built and push is entered; push's Add(1)
\* and send are the steps PushAdd and PushSend, as for every caller of push.
Message(level, msg) ==
    LET body == buildBody(level, msg)
        data == body @@ [body |-> messageBody(msg)]
    IN /\ call' = [op |-> "Message", text |-> msg, report |-> data]
       /\ PushEnter(Caller, MaxReports, data)

\* ErrorWithStackSkip(level, err, skip), called where the stack is `callers`
ErrorWithStackSkip(level, errText, skip, callers) ==
    LET body == buildBody(level, errText)
        here == <<Activation(RollbarFile, TRUE, FnErrorWithStackSkip, 295)>> \o callers
        data == body @@ [body |-> errorBody(errText, skip, here)]
    IN /\ call' = [op |-> "ErrorWithStackSkip", text |-> errText, report |-> data,
                   skip |-> skip, callers |-> callers]
       /\ PushEnter(Caller, MaxReports, data)

\* RequestErrorWithStackSkip(level, r, err, skip), called where the stack is `callers`
RequestErrorWithStackSkip(level, r, errText, skip, callers) ==
    LET body == buildBody(level, errText)
        here == <<Activation(RollbarFile, TRUE, FnRequestErrorWithStackSkip, 309)>> \o callers
        data == body @@ [body |-> errorBody(errText, skip, here), request |-> errorRequest(r)]
    IN /\ call' = [op |-> "RequestErrorWithStackSkip", text |-> errText, report |-> data,
                   skip |-> skip, callers |-> callers]
       /\ PushEnter(Caller, MaxReports, data)

\* Error(level, err), called where the stack is `callers`
Error(level, errText, callers) ==
    ErrorWithStackSkip(level, errText, 1,
                       <<Activation(RollbarFile, TRUE, FnError, 281)>> \o callers)

\* RequestError(level, r, err), called where the stack is `callers`
RequestError(level, r, errText, callers) ==
    RequestErrorWithStackSkip(level, r, errText, 1,
                              <<Activation(RollbarFile, TRUE, FnRequestError, 287)>> \o callers)

\* ------------------------------------------------------------------ SpecFn

Skips == 0..1
NoParams == [k \in {} |-> <<>>]

CallMessage ==
    /\ call.op = "none"
    /\ \E level \in Levels, msg \in Msgs : Message(level, msg)

\* The stacks of the program's own functions from which the reporter is
\* called: up to MaxCallerDepth activations, innermost first.
MaxCallerDepth == 2
UserActivations ==
    { Activation(<<"/","g","o","/","s","r","c","/","g","i","t","h","u","b",".","c","o","m","/","a","c","m","e","/","a","p","p","/","m","a","i","n",".","g","o">>, TRUE, <<"m","a","i","n",".","m","a","i","n">>, 10),
      Activation(<<"/","g","o","/","s","r","c","/","b","i","t","b","u","c","k","e","t",".","o","r","g","/","a","c","m","e","/","w","e","b","/","h",".","g","o">>, TRUE, <<"b","i","t","b","u","c","k","e","t",".","o","r","g","/","a","c","m","e","/","w","e","b",".","H","a","n","d","l","e">>, 20),
      Activation(<<"/","u","s","r","/","l","o","c","a","l","/","g","o","/","s","r","c","/","p","k","g","/","r","u","n","t","i","m","e","/","p","r","o","c",".","c">>, FALSE, <<>>, 271) }
CallerStacks == SeqsUpTo(UserActivations, MaxCallerDepth) \ {<<>>}
MainStack == <<Activation(<<"/","g","o","/","s","r","c","/","g","i","t","h","u","b",".","c","o","m","/","a","c","m","e","/","a","p","p","/","m","a","i","n",".","g","o">>, TRUE, <<"m","a","i","n",".","m","a","i","n">>, 10)>>

\* The request variants draw every message, every map and every stack, each
\* in one of the two actions, not their full product.
ShortMsgs == {<<>>, <<"a", NL, "b">>}
OneKeyMaps == {q \in ParamMaps : Cardinality(DOMAIN q) <= 1}

CallError ==
    /\ call.op = "none"
    /\ \E msg \in Msgs, callers \in CallerStacks : Error(ERR, msg, callers)

CallErrorWithStackSkip ==
    /\ call.op = "none"
    /\ \E msg \in Msgs, skip \in Skips, callers \in CallerStacks :
        ErrorWithStackSkip(WARN, msg, skip, callers)

CallRequestError ==
    /\ call.op = "none"
    /\ \E msg \in ShortMsgs, q \in OneKeyMaps, callers \in CallerStacks :
        RequestError(CRIT, [query |-> q, form |-> NoParams], msg, callers)

CallRequestErrorWithStackSkip ==
    /\ call.op = "none"
    /\ \E msg \in ShortMsgs, q \in ParamMaps, skip \in Skips :
        RequestErrorWithStackSkip(DEBUG, [query |-> NoParams, form |-> q], msg, skip, MainStack)

\* BuildStack(skip) called directly by the program.
CallBuildStack ==
    /\ call.op = "none"
    /\ \E skip \in 0..(MaxCallerDepth + 2), callers \in CallerStacks :
        call' = [op |-> "BuildStack", skip |-> skip, callers |-> callers,
                 result |-> BuildStack(skip, callers)]
    /\ UNCHANGED <<cfgVars, chanVars, prodVars, workVars, waitVars, histVars>>

\* filterParams(values) applied to a map of the caller.
CallFilterParams ==
    /\ call.op = "none"
    /\ \E values \in ParamMaps :
        call' = [op |-> "filterParams", arg |-> values, result |-> filterParams(values)]
    /\ UNCHANGED <<cfgVars, chanVars, prodVars, workVars, waitVars, histVars>>

\* shortenFilePath(s) applied to a path, and once more to its result.
CallShortenFilePath ==
    /\ call.op = "none"
    /\ \E path \in PathInputs :
        call' = [op |-> "shortenFilePath", arg |-> path,
                 result |-> shortenFilePath(path),
                 again |-> shortenFilePath(shortenFilePath(path))]
    /\ UNCHANGED <<cfgVars, chanVars, prodVars, workVars, waitVars, histVars>>

NextFn ==
    \/ SetToken
    \/ CallShortenFilePath
    \/ CallBuildStack
    \/ CallMessage
    \/ CallError
    \/ CallErrorWithStackSkip
    \/ CallRequestError
    \/ CallRequestErrorWithStackSkip
    \/ CallFilterParams
    \/ \E p \in Producers : PushAdd(p)
    \/ \E p \in Producers : PushSend(p)

SpecFn == Init /\ [][NextFn]_vars

\* ------------------------------------------------------------------ helpers of the properties

InChannel(i) == \E k \in 1..Len(bodyChannel) : bodyChannel[k].id = i
IsPrefix(s, t) == Len(s) <= Len(t) /\ \A k \in 1..Len(s) : s[k] = t[k]
Accepted == {i \in Ids : pushed[i] \in {"added", "sent"}}
Finished == {i \in Ids : dones[i] >= 1}

\* ------------------------------------------------------------------ C1

\* C1: push never waits for queue space: whenever a producer stands at the
\* channel send of push, the channel has room, so the send completes at once.
PushNeverWaits ==
    \A p \in Producers : ppc[p] = "send" => Len(bodyChannel) < ChanCap

\* ------------------------------------------------------------------ C2

RejectedNeverDelivered ==
    \A i \in Ids : pushed[i] = "rejected" =>
        /\ recvs[i] = 0 /\ posts[i] = 0 /\ dones[i] = 0
        /\ ~InChannel(i)
        /\ \A k \in 1..Len(order) : order[k] # i

\* C2: a push that finds the queue holding its configured capacity (Buffer)
\* or more returns at once, leaves the queue and the pending count as they
\* were, and its report is never received, posted or counted.
CapacityBoundary ==
    /\ []RejectedNeverDelivered
    /\ [][(nextId' # nextId /\ Len(bodyChannel) >= Buffer) =>
            /\ bodyChannel' = bodyChannel
            /\ waitGroup' = waitGroup
            /\ ppc' = ppc
            /\ pushed'[nextId] = "rejected"]_vars

\* The queue was filled to its capacity and the next push was rejected.
CapacityBoundaryWitness ==
    /\ Buffer = ChanCap
    /\ Len(bodyChannel) = ChanCap
    /\ waitGroup = ChanCap
    /\ \E i \in Ids : pushed[i] = "rejected"
    /\ \A p \in Producers : ppc[p] = "idle"

\* ------------------------------------------------------------------ C3

\* C3: when Wait returns, the pending count is 0 and every report whose push
\* had returned before Wait was called has been received once, has gone
\* through post once (at most one POST) and has been counted done once.
DrainBarrier ==
    [][(tpc = "waiting" /\ tpc' = "returned") =>
        /\ waitGroup = 0
        /\ \A i \in waitSnap :
            /\ recvs[i] = 1
            /\ outcome[i] \in Outcomes
            /\ posts[i] <= 1
            /\ dones[i] = 1]_vars

\* Wait has returned after two accepted reports, one delivered and one failed.
DrainBarrierWitness ==
    /\ tpc = "returned"
    /\ Cardinality(waitSnap) >= 2
    /\ \E i \in waitSnap : outcome[i] = "ok"
    /\ \E i \in waitSnap : outcome[i] \in Failures

\* ------------------------------------------------------------------ C4

\* C4: the worker hands reports to post in the order in which they entered
\* the channel.
FifoDelivery == IsPrefix(handed, order)

\* Two producers interleaved, so that the later-built report entered the
\* channel first and was handed to post first.
FifoDeliveryWitness ==
    /\ Len(handed) >= 2
    /\ handed[1] > handed[2]

\* ------------------------------------------------------------------ C5

\* C5: at most one POST is in progress, and the worker receives the next
\* report only after post has returned for every earlier one and Done has
\* been called for it.
SingleInFlight ==
    /\ [](inflight <= 1 /\ (inflight = 1 => wpc = "httpwait"))
    /\ [][handed' # handed =>
            /\ inflight = 0
            /\ \A k \in 1..Len(handed) :
                outcome[handed[k]] # "none" /\ dones[handed[k]] = 1]_vars

\* A POST is in progress for the second report while a third one waits.
SingleInFlightWitness ==
    /\ inflight = 1
    /\ Len(handed) = 2
    /\ bodyChannel # <<>>

\* ------------------------------------------------------------------ C6

\* C6: a report is received at most once and posted at most once; once post
\* has ended for it, whatever the outcome, it is not in the channel, the
\* worker only has Done left to do for it, and after Done it is gone.
NoRetry ==
    \A i \in Ids :
        /\ recvs[i] <= 1
        /\ posts[i] <= 1
        /\ recvs[i] = 1 => ~InChannel(i)
        /\ outcome[i] # "none" =>
              /\ recvs[i] = 1
              /\ wbody.id = i => wpc = "done"
        /\ dones[i] >= 1 => wbody.id # i

\* A report whose POST failed is done, and the worker is posting a later one.
NoRetryWitness ==
    /\ \E i \in Ids : outcome[i] \in {"post_failed", "bad_status"} /\ dones[i] = 1
    /\ inflight = 1

\* ------------------------------------------------------------------ C7

\* C7: when post reads an empty Token it returns without a POST: the worker
\* goes on to marshal and POST only with a non-empty token read, and a
\* report that ended with "empty token" was never posted.
MissingCredential ==
    /\ [](/\ wpc \in {"marshal", "http", "httpwait"} => wtoken # ""
          /\ inflight > 0 => wtoken # ""
          /\ \A i \in Ids : outcome[i] = "empty_token" => posts[i] = 0)
    /\ [][(wpc = "post" /\ wpc' # "post" /\ Token = "") =>
            /\ wpc' = "done"
            /\ outcome'[wbody.id] = "empty_token"
            /\ posts' = posts
            /\ inflight' = inflight]_vars

\* A report was discarded for the empty token, and a later one is being posted.
MissingCredentialWitness ==
    /\ \E i \in Ids : outcome[i] = "empty_token" /\ dones[i] = 1
    /\ \E i \in Ids : posts[i] = 1

\* ------------------------------------------------------------------ C8

\* C8: the pending count is the number of accepted reports minus the number
\* of finished ones; Done is called once per report, only after post has
\* returned, and after every outcome of post; a rejected push is not counted.
PendingCountAccounting ==
    /\ [](/\ waitGroup = Cardinality(Accepted) - Cardinality(Finished)
          /\ \A i \in Ids :
                /\ dones[i] <= 1
                /\ dones[i] = 1 => (outcome[i] \in Outcomes /\ pushed[i] = "sent")
                /\ outcome[i] # "none" => (dones[i] = 1 \/ (wbody.id = i /\ wpc = "done"))
                /\ pushed[i] = "rejected" => dones[i] = 0)
    /\ [][dones' # dones =>
            /\ wpc = "done" /\ inflight = 0
            /\ outcome[wbody.id] # "none"
            /\ waitGroup' = waitGroup - 1]_vars
    /\ [][(nextId' # nextId /\ pushed'[nextId] = "rejected") => waitGroup' = waitGroup]_vars

\* Done has been called after an empty token and after a bad status, a third
\* push was rejected, and the count is back to 0.
PendingCountWitness ==
    /\ waitGroup = 0
    /\ \E i \in Ids : outcome[i] = "empty_token" /\ dones[i] = 1
    /\ \E i \in Ids : outcome[i] = "bad_status" /\ dones[i] = 1
    /\ \E i \in Ids : pushed[i] = "rejected"

\* ------------------------------------------------------------------ C9

\* C9: the title of a report built by Message, ErrorWithStackSkip or
\* RequestErrorWithStackSkip is the text up to its first newline, and the
\* message body or exception message is the whole text.
TitleUpToNewline ==
    call.op \in {"Message", "ErrorWithStackSkip", "RequestErrorWithStackSkip"} =>
        /\ call.report.title = SplitFirstLine(call.text)
        /\ call.report.body.text = call.text

\* ------------------------------------------------------------------ C10

\* C10: every key that matches password|secret|token when letter case is
\* ignored has its values replaced by the placeholder.
RedactionIgnoresCase ==
    call.op = "filterParams" =>
        \A k \in DOMAIN call.arg :
            FilterFieldsMatch(ToLower(k)) => call.result[k] = <<FILTERED>>

\* ------------------------------------------------------------------ C11

\* C11: filterParams returns a map with the same keys, in which every key
\* matching password|secret|token maps to the one-element list
\* ["[FILTERED]"], however many values it had, and every other key maps to
\* its original list of values.
RedactionShape ==
    call.op = "filterParams" =>
        /\ DOMAIN call.result = DOMAIN call.arg
        /\ \A k \in DOMAIN call.arg :
            IF Contains(k, PatPassword) \/ Contains(k, PatSecret) \/ Contains(k, PatToken)
            THEN call.result[k] = <<FILTERED>>
            ELSE call.result[k] = call.arg[k]

\* A map with a matching key holding two values and another key holding one.
RedactionShapeWitness ==
    /\ call.op = "filterParams"
    /\ \E k1, k2 \in DOMAIN call.arg :
        /\ FilterFieldsMatch(k1) /\ Len(call.arg[k1]) = 2
        /\ call.result[k1] = <<FILTERED>>
        /\ ~FilterFieldsMatch(k2) /\ call.result[k2] = <<"abc">>

\* ------------------------------------------------------------------ C12

OccursAt(s, pat, k) == k + Len(pat) <= Len(s) /\ SubSeq(s, k + 1, k + Len(pat)) = pat
Markers == {knownFilePathPatterns[i] : i \in 1..Len(knownFilePathPatterns)}
HasMarker(s) == \E m \in Markers : Contains(s, m)

\* C12: a path containing "/src/pkg/" is cut to the suffix that starts at
\* "pkg/" of the first occurrence, also when a hosting marker is present;
\* otherwise a path containing a hosting marker is cut to a suffix starting
\* at a marker; otherwise the path is returned unchanged; and the paths of
\* the test give the results of the test.
PathNormalizationCases ==
    call.op = "shortenFilePath" =>
        /\ Contains(call.arg, SrcPkg) =>
              \E k \in 0..Len(call.arg) :
                  /\ OccursAt(call.arg, SrcPkg, k)
                  /\ \A j \in 0..(k - 1) : ~OccursAt(call.arg, SrcPkg, j)
                  /\ call.result = SubSeq(call.arg, k + 6, Len(call.arg))
                  /\ SubSeq(call.result, 1, 4) = <<"p","k","g","/">>
        /\ (~Contains(call.arg, SrcPkg) /\ HasMarker(call.arg)) =>
              \E m \in Markers, k \in 0..Len(call.arg) :
                  /\ OccursAt(call.arg, m, k)
                  /\ call.result = SubSeq(call.arg, k + 1, Len(call.arg))
        /\ (~Contains(call.arg, SrcPkg) /\ ~HasMarker(call.arg)) => call.result = call.arg
        /\ call.arg = TestPathEmpty => call.result = TestPathEmpty
        /\ call.arg = TestPathPlain => call.result = TestPathPlain
        /\ call.arg = TestPathStd => call.result = TestPathStdShort
        /\ call.arg = TestPathHosted => call.result = TestPathHostedShort

\* A path holding a hosting marker before "/src/pkg/" was cut at "pkg/".
PathNormalizationWitness ==
    /\ call.op = "shortenFilePath"
    /\ HasMarker(call.arg)
    /\ Contains(call.arg, SrcPkg)
    /\ Index(call.arg, knownFilePathPatterns[1]) = 0
    /\ SubSeq(call.result, 1, 4) = <<"p","k","g","/">>

\* ------------------------------------------------------------------ C13

\* C13: shortenFilePath applied to its own result returns that result.
PathNormalizationIdempotent ==
    call.op = "shortenFilePath" => call.again = call.result

\* ------------------------------------------------------------------ C14

LeftmostMarkerAt(s) ==
    CHOOSE k \in 0..Len(s) :
        /\ \E m \in Markers : OccursAt(s, m, k)
        /\ \A j \in 0..(k - 1) : \A m \in Markers : ~OccursAt(s, m, j)

\* C14: a path without "/src/pkg/" that contains hosting markers is cut at
\* the leftmost position where any of the markers occurs.
HostingMarkerLeftmost ==
    (call.op = "shortenFilePath" /\ ~Contains(call.arg, SrcPkg) /\ HasMarker(call.arg)) =>
        call.result = SliceFrom(call.arg, LeftmostMarkerAt(call.arg))

\* ------------------------------------------------------------------ C15

IsReporterFrame(a) == a.fn.known /\ a.fn.name \in ReporterFns
ReportCalls == {"ErrorWithStackSkip", "RequestErrorWithStackSkip"}

\* The program's own stack below a call of an entry point: the recorded
\* stack is the one at the call of (Request)ErrorWithStackSkip, which starts
\* with the activation of Error or RequestError when that was the entry point.
UserStack(c) == IF IsReporterFrame(c.callers[1]) THEN Tail(c.callers) ELSE c.callers
ThroughWrapper(c) == IsReporterFrame(c.callers[1])

\* C15: BuildStack(skip) returns, in order and to the bottom of the stack,
\* the frames from the skip-th activation above its own (BuildStack(1)[0] is
\* its caller; nothing when skip reaches the depth); and a report made by
\* Error, RequestError, or by ErrorWithStackSkip or RequestErrorWithStackSkip
\* with skip 0, carries exactly the frames of the program's stack at the call
\* of that entry point, the first being the function that called it.
StackCapture ==
    /\ call.op = "BuildStack" =>
        /\ Len(call.result) =
              IF call.skip > Len(call.callers) THEN 0 ELSE Len(call.callers) + 1 - call.skip
        /\ \A k \in 1..Len(call.result) :
              IF call.skip + k = 1
              THEN call.result[k].Method = <<"r","o","l","l","b","a","r",".",
                                             "B","u","i","l","d","S","t","a","c","k">>
              ELSE /\ call.result[k].Line = call.callers[call.skip + k - 1].line
                   /\ call.result[k].Filename =
                          shortenFilePath(call.callers[call.skip + k - 1].file)
    /\ (call.op \in ReportCalls /\ call.skip = (IF ThroughWrapper(call) THEN 1 ELSE 0)) =>
        LET frames == call.report.body.frames
            user == UserStack(call)
        IN /\ Len(frames) = Len(user)
           /\ \A k \in 1..Len(user) :
                /\ frames[k].Line = user[k].line
                /\ frames[k].Filename = shortenFilePath(user[k].file)
                /\ frames[k].Method = functionName(user[k].fn)
           /\ \A k \in 1..Len(frames) :
                \A f \in ReporterFns : frames[k].Method # functionName([known |-> TRUE, name |-> f])

\* Error was called from a function two deep in the program, and the report
\* starts at that function.
StackCaptureWitness ==
    /\ call.op = "ErrorWithStackSkip"
    /\ call.skip = 1
    /\ call.callers[1].fn.name = FnError
    /\ Len(call.callers) = 3
    /\ Len(call.report.body.frames) = 2
    /\ call.report.body.frames[1].Line = call.callers[2].line

\* ------------------------------------------------------------------ C16

Held == IF wbody = NoBody THEN 0 ELSE 1

\* C16: the pending count is never negative and never less than the number
\* of reports in the channel plus the one held by the worker, so it is above
\* 0 whenever a report is queued or held; a report enters the channel only
\* after its Add(1), and the count goes down only at the worker's Done,
\* after post has ended.
PendingCoversBacklog ==
    /\ [](/\ waitGroup >= 0
          /\ waitGroup >= Len(bodyChannel) + Held
          /\ (bodyChannel # <<>> \/ wbody # NoBody) => waitGroup > 0)
    /\ [][order' # order =>
            /\ order' = Append(order, order'[Len(order')])
            /\ pushed[order'[Len(order')]] = "added"
            /\ waitGroup' = waitGroup]_vars
    /\ [][waitGroup' < waitGroup =>
            /\ wpc = "done"
            /\ outcome[wbody.id] # "none"
            /\ inflight = 0]_vars

\* A report is queued, another is held by the worker, and a third has been
\* counted by a producer that has not sent it yet.
PendingCoversBacklogWitness ==
    /\ bodyChannel # <<>>
    /\ wbody # NoBody
    /\ \E p \in Producers : ppc[p] = "send"
    /\ waitGroup = Len(bodyChannel) + Held + 1

\* C18: the pending count never exceeds the capacity of the channel plus
\* one, the report held by the worker.
BacklogBound == waitGroup <= ChanCap + 1

ProducersQuiet == \A p \in Producers : ppc[p] = "idle"

\* C17: with a fair worker and returning posts, every report a push has put
\* in the channel is eventually received, run through post and counted down;
\* if the producers end up outside push for good, the pending count ends up
\* at 0 for good and a waiting Wait returns.  Conversely, across any step
\* that leaves the worker inside http.Post no report is handed to post or
\* counted down and Wait does not return, the pending count being above 0.
EventualDelivery ==
    /\ \A i \in Ids :
          (pushed[i] = "sent") ~> (recvs[i] = 1 /\ outcome[i] # "none" /\ dones[i] = 1)
    /\ <>[]ProducersQuiet => <>[](waitGroup = 0)
    /\ <>[]ProducersQuiet => ((tpc = "waiting") ~> (tpc = "returned"))
    /\ [](wpc = "httpwait" => waitGroup > 0)
    /\ [][wpc = "httpwait" /\ wpc' = "httpwait" =>
            /\ handed' = handed
            /\ dones' = dones
            /\ outcome' = outcome
            /\ (tpc' = "returned" => tpc = "returned")]_vars

\* Wait was called while a report was still pending and has returned, with
\* every push call made, every accepted report counted down and the pending
\* count at 0.
EventualDeliveryWitness ==
    /\ tpc = "returned"
    /\ waitGroup = 0
    /\ ProducersQuiet
    /\ nextId > MaxReports
    /\ waitSnap # {}
    /\ \A i \in 1..MaxReports :
          pushed[i] = "sent" /\ dones[i] = 1 /\ outcome[i] # "none"

====
